---- MODULE Spec2Model ----
(***************************************************************************)
(* Model of the TimeTrack database layer                                   *)
(* (supabase/migrations/20250210134118_patient_lantern.sql): the six       *)
(* tables with their constraints, the row-level-security policies, the     *)
(* function check_location_restrictions and the audit trigger              *)
(* audit_log_changes, under PostgreSQL's semantics.                        *)
(*                                                                         *)
(* A request is one SQL statement run in its own transaction.  Two kinds   *)
(* of session reach the database:                                          *)
(*   - a client session (role "authenticated", subject to row security,    *)
(*     auth.uid() = the user's id, request.headers set by the API          *)
(*     gateway);                                                           *)
(*   - a system session (a role that bypasses row security, auth.uid()     *)
(*     null; request.headers is set when the statement arrives through     *)
(*     the API gateway and unset when it is run directly, as by a          *)
(*     migration, a console or a scheduled job).                           *)
(* A nullable SQL value is a sequence: <<>> is NULL and <<v>> is v.        *)
(***************************************************************************)
EXTENDS Integers, Sequences, FiniteSets, TLC

\* ---------------------------------------------------------------- bounds
MaxOps == 3          \* committed statements per behaviour
MaxCoord == 2        \* authorizer inputs: coordinates range over 0..MaxCoord
MaxRadius == 2       \* authorizer inputs: radii range over -1..MaxRadius
MaxFences == 2       \* authorizer inputs: geo-fences in the policy store

NULL == <<>>
Val(v) == <<v>>
IsNull(x) == x = <<>>
Get(x) == x[1]
Nullable(S) == {NULL} \cup {Val(v) : v \in S}

Users == {1, 2}                      \* the ids of auth.users
IPs == {"1.2.3.4", "9.9.9.9"}

TableNames == {"profiles", "time_entries", "schedules", "audit_logs",
               "ip_whitelist", "geo_fences"}

VARIABLES
  profiles,      \* set of rows [id, role]
  time_entries,  \* set of rows [id, user_id, entry_type, ip_address, latitude, longitude]
  schedules,     \* set of rows [id, user_id, end_time, created_by]
  audit_logs,    \* sequence of rows, in insertion order
  ip_whitelist,  \* set of rows [id, ip_address, created_by]
  geo_fences,    \* set of rows [id, latitude, longitude, radius, created_by]
  nextId,        \* the next value gen_random_uuid() hands out
  ops,           \* the number of statements committed so far
  history,       \* every committed row mutation, in commit order (ghost)
  last,          \* the last committed statement (ghost)
  rpc            \* the last call of check_location_restrictions and its result

vars == <<profiles, time_entries, schedules, audit_logs, ip_whitelist,
          geo_fences, nextId, ops, history, last, rpc>>

\* The database as one record, so that a statement is a function on it.
DB == [profiles |-> profiles, time_entries |-> time_entries,
       schedules |-> schedules, audit_logs |-> audit_logs,
       ip_whitelist |-> ip_whitelist, geo_fences |-> geo_fences]

\* ------------------------------------------------------------ constraints
\* CHECK constraints of a row (profiles.role, time_entries.entry_type).
\* geo_fences.radius is declared INTEGER NOT NULL and nothing more.
RowValid(table, row) ==
  CASE table = "profiles" -> row.role \in {"admin", "employee"}
    [] table = "time_entries" -> row.entry_type \in {"clock_in", "clock_out"}
    [] OTHER -> TRUE

\* PRIMARY KEY and UNIQUE constraints of a database state.
UniqueOK(db) ==
  /\ \A t \in TableNames \ {"audit_logs"} :
       \A r1, r2 \in db[t] : r1.id = r2.id => r1 = r2
  /\ \A r1, r2 \in db.ip_whitelist : r1.ip_address = r2.ip_address => r1 = r2

\* A nullable reference to profiles(id) is satisfied.
RefsProfile(db, ref) == IsNull(ref) \/ \E p \in db.profiles : p.id = Get(ref)

\* REFERENCES constraints of a database state, as they stand at the end of a
\* statement (after ON DELETE CASCADE has run; the others are NO ACTION).
ForeignKeysOK(db) ==
  /\ \A p \in db.profiles : p.id \in Users              \* auth.users(id)
  /\ \A r \in db.time_entries : RefsProfile(db, r.user_id)
  /\ \A r \in db.schedules : RefsProfile(db, r.user_id) /\ RefsProfile(db, r.created_by)
  /\ \A i \in 1..Len(db.audit_logs) : RefsProfile(db, db.audit_logs[i].user_id)
  /\ \A r \in db.ip_whitelist : RefsProfile(db, r.created_by)
  /\ \A r \in db.geo_fences : RefsProfile(db, r.created_by)

ConstraintsOK(db) ==
  /\ \A t \in TableNames \ {"audit_logs"} : \A r \in db[t] : RowValid(t, r)
  /\ UniqueOK(db)
  /\ ForeignKeysOK(db)

\* ------------------------------------------------------ row-level security
\* (as Policies, with one more policy: every session may insert audit records)
PoliciesAuditWritable == {
  [table |-> "profiles", cmd |-> "SELECT", expr |-> "uid_is_id"],
  [table |-> "profiles", cmd |-> "SELECT", expr |-> "admin"],
  [table |-> "profiles", cmd |-> "INSERT", expr |-> "admin"],
  [table |-> "profiles", cmd |-> "UPDATE", expr |-> "admin"],
  [table |-> "time_entries", cmd |-> "SELECT", expr |-> "uid_is_user_id"],
  [table |-> "time_entries", cmd |-> "SELECT", expr |-> "admin"],
  [table |-> "time_entries", cmd |-> "INSERT", expr |-> "uid_is_user_id"],
  [table |-> "schedules", cmd |-> "SELECT", expr |-> "uid_is_user_id"],
  [table |-> "schedules", cmd |-> "SELECT", expr |-> "admin"],
  [table |-> "schedules", cmd |-> "ALL", expr |-> "admin"],
  [table |-> "audit_logs", cmd |-> "SELECT", expr |-> "admin"],
  [table |-> "ip_whitelist", cmd |-> "SELECT", expr |-> "true"],
  [table |-> "ip_whitelist", cmd |-> "ALL", expr |-> "admin"],
  [table |-> "geo_fences", cmd |-> "SELECT", expr |-> "true"],
  [table |-> "geo_fences", cmd |-> "ALL", expr |-> "admin"],
  [table |-> "audit_logs", cmd |-> "INSERT", expr |-> "true"] }

\* (as Policies, with the owner's policy on time_entries written FOR ALL and
\* without the admins' view policy on that table)
PoliciesOwnerManagesEntries == {
  [table |-> "profiles", cmd |-> "SELECT", expr |-> "uid_is_id"],
  [table |-> "profiles", cmd |-> "SELECT", expr |-> "admin"],
  [table |-> "profiles", cmd |-> "INSERT", expr |-> "admin"],
  [table |-> "profiles", cmd |-> "UPDATE", expr |-> "admin"],
  [table |-> "time_entries", cmd |-> "SELECT", expr |-> "uid_is_user_id"],
  [table |-> "time_entries", cmd |-> "ALL", expr |-> "uid_is_user_id"],
  [table |-> "schedules", cmd |-> "SELECT", expr |-> "uid_is_user_id"],
  [table |-> "schedules", cmd |-> "SELECT", expr |-> "admin"],
  [table |-> "schedules", cmd |-> "ALL", expr |-> "admin"],
  [table |-> "audit_logs", cmd |-> "SELECT", expr |-> "admin"],
  [table |-> "ip_whitelist", cmd |-> "SELECT", expr |-> "true"],
  [table |-> "ip_whitelist", cmd |-> "ALL", expr |-> "admin"],
  [table |-> "geo_fences", cmd |-> "SELECT", expr |-> "true"],
  [table |-> "geo_fences", cmd |-> "ALL", expr |-> "admin"] }

\* The CREATE POLICY statements.  expr names the policy's expression:
\*   "uid_is_id"       auth.uid() = id
\*   "uid_is_user_id"  auth.uid() = user_id
\*   "admin"           EXISTS (SELECT 1 FROM profiles
\*                             WHERE id = auth.uid() AND role = 'admin')
\*   "true"            true
Policies == {
  [table |-> "profiles", cmd |-> "SELECT", expr |-> "uid_is_id"],
  [table |-> "profiles", cmd |-> "SELECT", expr |-> "admin"],
  [table |-> "profiles", cmd |-> "INSERT", expr |-> "admin"],
  [table |-> "profiles", cmd |-> "UPDATE", expr |-> "admin"],
  [table |-> "time_entries", cmd |-> "SELECT", expr |-> "uid_is_user_id"],
  [table |-> "time_entries", cmd |-> "SELECT", expr |-> "admin"],
  [table |-> "time_entries", cmd |-> "INSERT", expr |-> "uid_is_user_id"],
  [table |-> "schedules", cmd |-> "SELECT", expr |-> "uid_is_user_id"],
  [table |-> "schedules", cmd |-> "SELECT", expr |-> "admin"],
  [table |-> "schedules", cmd |-> "ALL", expr |-> "admin"],
  [table |-> "audit_logs", cmd |-> "SELECT", expr |-> "admin"],
  [table |-> "ip_whitelist", cmd |-> "SELECT", expr |-> "true"],
  [table |-> "ip_whitelist", cmd |-> "ALL", expr |-> "admin"],
  [table |-> "geo_fences", cmd |-> "SELECT", expr |-> "true"],
  [table |-> "geo_fences", cmd |-> "ALL", expr |-> "admin"] }

\* The policies that apply to one command on one table.
Applicable(table, cmd) ==
  {p \in Policies : p.table = table /\ p.cmd \in {cmd, "ALL"}}

\* The tables a policy expression reads through a subquery.
SubLinkTables(expr) == IF expr = "admin" THEN {"profiles"} ELSE {}

\* (as EvalPolicy, with auth.uid() = user_id taken as true)
EvalPolicy_AnyOwner(expr, uid, row, db) ==
  CASE expr = "true" -> TRUE
    [] expr = "uid_is_id" -> ~IsNull(uid) /\ Get(uid) = row.id
    [] expr = "uid_is_user_id" -> TRUE
    [] expr = "admin" ->
         ~IsNull(uid) /\ \E p \in db.profiles : p.id = Get(uid) /\ p.role = "admin"

\* A policy expression on a row, for the session user uid (auth.uid()).
\* A comparison with NULL is not true.
EvalPolicy(expr, uid, row, db) ==
  CASE expr = "true" -> TRUE
    [] expr = "uid_is_id" -> ~IsNull(uid) /\ Get(uid) = row.id
    [] expr = "uid_is_user_id" -> ~IsNull(uid) /\ uid = row.user_id
    [] expr = "admin" ->
         ~IsNull(uid) /\ \E p \in db.profiles : p.id = Get(uid) /\ p.role = "admin"

\* The command types whose policies a statement is rewritten with: an UPDATE
\* or DELETE that names its target row in WHERE reads the table and so takes
\* the SELECT policies too.
StatementCmds(cmd) ==
  IF cmd \in {"UPDATE", "DELETE"} THEN {cmd, "SELECT"} ELSE {cmd}

\* The rewriter expands the policies of every table a statement reads,
\* subqueries of policy expressions included, and raises "infinite recursion
\* detected in policy for relation" when a policy with a subquery is reached
\* while its own table is being expanded.  The profiles policies read
\* profiles.
RECURSIVE PolicyRecursion(_, _, _)
PolicyRecursion(table, cmds, activeRIRs) ==
  LET quals == UNION {Applicable(table, c) : c \in cmds}
      hasSubLinks == \E p \in quals : SubLinkTables(p.expr) # {}
  IN  /\ hasSubLinks
      /\ \/ table \in activeRIRs
         \/ \E p \in quals : \E t \in SubLinkTables(p.expr) :
              PolicyRecursion(t, {"SELECT"}, activeRIRs \cup {table})

\* Permissive policies of one command type are OR-ed (none: default deny);
\* the command types of a statement are AND-ed.
RowPasses(table, cmds, uid, row, db) ==
  \A c \in cmds : \E p \in Applicable(table, c) : EvalPolicy(p.expr, uid, row, db)

\* --------------------------------------------------- location authorizer
\* point(x, y) and circle(center, radius) are strict: NULL in, NULL out.
point(x, y) == IF IsNull(x) \/ IsNull(y) THEN NULL ELSE Val([x |-> Get(x), y |-> Get(y)])

circle(center, radius) ==
  IF IsNull(center) THEN NULL ELSE Val([center |-> Get(center), radius |-> radius])

\* pt <@ circ: the point's planar distance to the circle's centre is at most
\* the radius (the comparison is on the squares, as the coordinates are
\* integers here); NULL when an operand is NULL.
PtContainedCircle(pt, circ) ==
  IF IsNull(pt) \/ IsNull(circ) THEN NULL
  ELSE LET dx == Get(pt).x - Get(circ).center.x
           dy == Get(pt).y - Get(circ).center.y
           r == Get(circ).radius
       IN  Val(r >= 0 /\ dx * dx + dy * dy <= r * r)

\* (as check_location_restrictions, with OR for AND in the RETURN)
check_location_restrictions_Either(p_latitude, p_longitude, p_ip_address, db) ==
  LET v_ip_allowed ==
        \E w \in db.ip_whitelist :
          ~IsNull(p_ip_address) /\ w.ip_address = Get(p_ip_address)
      Where(f) ==
        PtContainedCircle(point(Val(f.longitude), Val(f.latitude)),
                          circle(point(p_longitude, p_latitude), f.radius))
      v_geo_allowed ==
        \E f \in db.geo_fences : ~IsNull(Where(f)) /\ Get(Where(f))
  IN  v_ip_allowed \/ v_geo_allowed

check_location_restrictions(p_latitude, p_longitude, p_ip_address, db) ==
  LET v_ip_allowed ==
        \E w \in db.ip_whitelist :
          ~IsNull(p_ip_address) /\ w.ip_address = Get(p_ip_address)
      Where(f) ==
        PtContainedCircle(point(Val(f.longitude), Val(f.latitude)),
                          circle(point(p_longitude, p_latitude), f.radius))
      v_geo_allowed ==
        \E f \in db.geo_fences : ~IsNull(Where(f)) /\ Get(Where(f))
  IN  v_ip_allowed /\ v_geo_allowed

\* ------------------------------------------------------------ audit trail
\* (as AuditedTables, without the trigger on geo_fences)
AuditedTablesNoFences == {"profiles", "time_entries", "schedules", "ip_whitelist"}

\* The tables that have an audit_*_changes trigger.
AuditedTables == {"profiles", "time_entries", "schedules", "ip_whitelist",
                  "geo_fences"}

\* row_to_json(r): a JSON object with one member per column of the row r,
\* holding the column's value (JSON null for NULL); NULL for no row.
row_to_json(r) ==
  IF IsNull(r) THEN NULL ELSE Val([json |-> "object", members |-> Get(r)])

\* (as audit_log_changes, with the two snapshot columns the other way round)
audit_log_changes_Swapped(ctx, TG_OP, TG_TABLE_NAME, OLD_ROW, NEW_ROW) ==
  IF ctx.headers = <<>> THEN [raised |-> TRUE, row |-> NULL]
  ELSE [raised |-> FALSE,
        row |-> Val([user_id |-> ctx.uid,
                     action |-> TG_OP,
                     table_name |-> TG_TABLE_NAME,
                     record_id |-> IF ~IsNull(NEW_ROW) THEN Get(NEW_ROW).id ELSE Get(OLD_ROW).id,
                     old_data |-> IF TG_OP \in {"INSERT", "UPDATE"}
                                    THEN row_to_json(NEW_ROW) ELSE NULL,
                     new_data |-> IF TG_OP = "DELETE" THEN row_to_json(OLD_ROW) ELSE NULL,
                     ip_address |-> ctx.headers[1]])]

\* current_setting('request.headers') raises when the setting is not
\* defined; ->>'x-forwarded-for' is NULL when the header is not in it.
\* ctx.headers is <<>> when the setting is not defined and <<xff>> when it
\* is, xff being the (nullable) header value.
audit_log_changes(ctx, TG_OP, TG_TABLE_NAME, OLD_ROW, NEW_ROW) ==
  IF ctx.headers = <<>> THEN [raised |-> TRUE, row |-> NULL]
  ELSE [raised |-> FALSE,
        row |-> Val([user_id |-> ctx.uid,
                     action |-> TG_OP,
                     table_name |-> TG_TABLE_NAME,
                     record_id |-> IF ~IsNull(NEW_ROW) THEN Get(NEW_ROW).id ELSE Get(OLD_ROW).id,
                     old_data |-> IF TG_OP = "DELETE" THEN row_to_json(OLD_ROW) ELSE NULL,
                     new_data |-> IF TG_OP \in {"INSERT", "UPDATE"}
                                    THEN row_to_json(NEW_ROW) ELSE NULL,
                     ip_address |-> ctx.headers[1]])]

\* ------------------------------------------------------------- statements
\* A row mutation: op on table, old and new the row before and after (NULL
\* where there is none); at is the position in audit_logs, 0 elsewhere.
Mut(op, table, old, new, at) ==
  [op |-> op, table |-> table, old |-> old, new |-> new, at |-> at]

RemoveAt(s, i) == [j \in 1..(Len(s) - 1) |-> IF j < i THEN s[j] ELSE s[j + 1]]

ApplyMut(db, m) ==
  IF m.table = "audit_logs"
  THEN [db EXCEPT !.audit_logs =
          CASE m.op = "INSERT" -> Append(@, Get(m.new))
            [] m.op = "UPDATE" -> [@ EXCEPT ![m.at] = Get(m.new)]
            [] m.op = "DELETE" -> RemoveAt(@, m.at)]
  ELSE LET removed == IF IsNull(m.old) THEN db[m.table] ELSE db[m.table] \ {Get(m.old)}
       IN  [db EXCEPT ![m.table] =
              IF IsNull(m.new) THEN removed ELSE removed \cup {Get(m.new)}]

RECURSIVE ApplyMuts(_, _)
ApplyMuts(db, muts) ==
  IF muts = <<>> THEN db ELSE ApplyMuts(ApplyMut(db, Head(muts)), Tail(muts))

\* The rows of a set in id order (the order a scan meets them).
RECURSIVE ById(_)
ById(rows) ==
  IF rows = {} THEN <<>>
  ELSE LET first == CHOOSE r \in rows : \A q \in rows : r.id <= q.id
       IN  <<first>> \o ById(rows \ {first})

DeleteMuts(table, rows) ==
  [i \in 1..Len(rows) |-> Mut("DELETE", table, Val(rows[i]), NULL, 0)]

\* ON DELETE CASCADE: deleting a profile deletes the time_entries and the
\* schedules whose user_id is the profile, before the profile's own AFTER
\* trigger runs.
CascadeMuts(db, table, old) ==
  IF table = "profiles"
  THEN DeleteMuts("time_entries",
                  ById({r \in db.time_entries : r.user_id = Val(old.id)}))
       \o DeleteMuts("schedules",
                     ById({r \in db.schedules : r.user_id = Val(old.id)}))
  ELSE <<>>

\* The audit rows the AFTER ... FOR EACH ROW triggers write for muts.
AuditResults(ctx, muts) ==
  LET audited == SelectSeq(muts, LAMBDA m : m.table \in AuditedTables)
  IN  [i \in 1..Len(audited) |->
         audit_log_changes(ctx, audited[i].op, audited[i].table,
                           audited[i].old, audited[i].new)]

\* One transaction: the row mutations, the triggers, the constraints; all or
\* nothing.
Commit(db, ctx, muts) ==
  LET db1 == ApplyMuts(db, muts)
      res == AuditResults(ctx, muts)
      db2 == [db1 EXCEPT !.audit_logs = @ \o [i \in 1..Len(res) |-> Get(res[i].row)]]
      dupKey == \E i \in 1..Len(muts) :
                  /\ muts[i].op = "INSERT" /\ muts[i].table # "audit_logs"
                  /\ \E r \in db[muts[i].table] : r.id = Get(muts[i].new).id
  IN  IF dupKey \/ ~ConstraintsOK(db1)
        THEN [result |-> "ConstraintViolation", db |-> db]
      ELSE IF \E i \in 1..Len(res) : res[i].raised
        THEN [result |-> "AuditWriteFailure", db |-> db]
      ELSE IF ~ConstraintsOK(db2)
        THEN [result |-> "ConstraintViolation", db |-> db]
      ELSE [result |-> "OK", db |-> db2]

\* A data-changing statement on one row.  old is the target row of an UPDATE
\* or DELETE, new the row an INSERT or UPDATE writes.  bypass: the session's
\* role bypasses row security.  A row that fails USING is not seen (no row
\* is changed); a row that fails WITH CHECK is an error.
Exec(db, ctx, bypass, table, cmd, old, new, at) ==
  LET denied(result) == [result |-> result, db |-> db, muts |-> <<>>]
      cmds == StatementCmds(cmd)
      muts == IF cmd = "DELETE"
                THEN CascadeMuts(db, table, Get(old)) \o <<Mut(cmd, table, old, new, at)>>
                ELSE <<Mut(cmd, table, old, new, at)>>
      done == Commit(db, ctx, muts)
  IN  IF ~bypass /\ PolicyRecursion(table, cmds, {})
        THEN denied("PolicyRecursion")
      ELSE IF ~bypass /\ cmd # "INSERT" /\ ~RowPasses(table, cmds, ctx.uid, Get(old), db)
        THEN denied("NoRows")
      ELSE IF ~bypass /\ cmd # "DELETE" /\ ~RowPasses(table, cmds, ctx.uid, Get(new), db)
        THEN denied("AccessDenied")
      ELSE [result |-> done.result, db |-> done.db,
            muts |-> IF done.result = "OK" THEN muts ELSE <<>>]

\* The rows of a table as a set (audit_logs is kept in insertion order).
RowSet(db, table) ==
  IF table = "audit_logs"
  THEN {db.audit_logs[i] : i \in 1..Len(db.audit_logs)}
  ELSE db[table]

\* SELECT * FROM table, as a client: the rows the SELECT policies let through.
Select(db, uid, table) ==
  IF PolicyRecursion(table, {"SELECT"}, {})
  THEN [result |-> "PolicyRecursion", rows |-> {}]
  ELSE [result |-> "OK",
        rows |-> {r \in RowSet(db, table) : RowPasses(table, {"SELECT"}, uid, r, db)}]

\* ----------------------------------------------------------------- inputs
\* (ip_address, latitude, longitude) of a clock request.
ClockInputs == {
  [ip_address |-> Val("9.9.9.9"), latitude |-> Val(0), longitude |-> Val(0)] }

\* The rows a request may ask to insert; id is the generated key.
InsertRows(table, id) ==
  CASE table = "profiles" ->
         {[id |-> 1, role |-> "admin"], [id |-> 2, role |-> "employee"]}
    [] table = "time_entries" ->
         {[id |-> id, user_id |-> Val(u), entry_type |-> "clock_in",
           ip_address |-> c.ip_address, latitude |-> c.latitude,
           longitude |-> c.longitude] : u \in Users, c \in ClockInputs}
    [] table = "schedules" ->
         {[id |-> id, user_id |-> Val(2), end_time |-> 1, created_by |-> Val(1)]}
    [] table = "ip_whitelist" ->
         {[id |-> id, ip_address |-> "1.2.3.4", created_by |-> Val(1)],
          [id |-> id, ip_address |-> "9.9.9.9", created_by |-> NULL]}
    [] table = "geo_fences" ->
         {[id |-> id, latitude |-> 0, longitude |-> 0, radius |-> r,
           created_by |-> NULL] : r \in {0 - 1, 0, 1}}
    [] table = "audit_logs" ->
         {[user_id |-> NULL, action |-> "INSERT", table_name |-> "time_entries",
           record_id |-> id, old_data |-> NULL, new_data |-> NULL,
           ip_address |-> NULL]}

\* The rows a request may ask to turn row old into.
UpdatedRows(table, old) ==
  CASE table = "profiles" ->
         {[old EXCEPT !.role = r] : r \in {"admin", "employee"} \ {old.role}}
    [] table = "time_entries" -> {[old EXCEPT !.entry_type = "clock_out"]} \ {old}
    [] table = "schedules" -> {[old EXCEPT !.end_time = 2]} \ {old}
    [] table = "ip_whitelist" ->
         {[old EXCEPT !.ip_address = ip] : ip \in IPs \ {old.ip_address}}
    [] table = "geo_fences" ->
         {[old EXCEPT !.radius = r] : r \in {0 - 1, 1} \ {old.radius}}
    [] table = "audit_logs" -> {[old EXCEPT !.action = "DELETE"]} \ {old}

\* The rows of a table a request may name, each with its position.
Targets(db, table) ==
  IF table = "audit_logs"
  THEN {[row |-> db.audit_logs[i], at |-> i] : i \in 1..Len(db.audit_logs)}
  ELSE {[row |-> r, at |-> 0] : r \in db[table]}

\* Request contexts.  A client: auth.uid() is the user, and the gateway has
\* set request.headers with the caller's address.  A system session:
\* auth.uid() is NULL, and request.headers is either not defined or holds no
\* x-forwarded-for.
ClientCtxs == {[uid |-> Val(u), headers |-> <<Val("1.2.3.4")>>] : u \in Users}
SystemCtxs == {[uid |-> NULL, headers |-> h] : h \in {<<>>, <<NULL>>}}

\* ---------------------------------------------------------------- actions
Empty == [profiles |-> {}, time_entries |-> {}, schedules |-> {},
          audit_logs |-> <<>>, ip_whitelist |-> {}, geo_fences |-> {}]

NoStatement == [session |-> "none", uid |-> NULL, table |-> "none", cmd |-> "none"]
NoCall == [called |-> FALSE, latitude |-> NULL, longitude |-> NULL,
           ip_address |-> NULL, result |-> FALSE]

\* The two profiles, registered by the system through the gateway.
SeedMuts == <<Mut("INSERT", "profiles", NULL, Val([id |-> 1, role |-> "admin"]), 0),
              Mut("INSERT", "profiles", NULL, Val([id |-> 2, role |-> "employee"]), 0)>>
Seeded == Commit(Empty, [uid |-> NULL, headers |-> <<NULL>>], SeedMuts).db

\* The database right after the migration, or with the two users registered.
Init ==
  /\ \E db \in {Empty, Seeded} :
       /\ profiles = db.profiles /\ time_entries = db.time_entries
       /\ schedules = db.schedules /\ audit_logs = db.audit_logs
       /\ ip_whitelist = db.ip_whitelist /\ geo_fences = db.geo_fences
       /\ history = IF db = Empty THEN <<>> ELSE SeedMuts
  /\ nextId = 3
  /\ ops = 0
  /\ last = NoStatement
  /\ rpc = NoCall

\* The data-changing requests a session kind can make in the current state.
\* Clients reach every table through the API; system sessions write the five
\* application tables.
Req(session, ctx, table, cmd, old, new, at) ==
  [session |-> session, ctx |-> ctx, table |-> table, cmd |-> cmd,
   old |-> old, new |-> new, at |-> at]

Writes(session, ctxs, tables, cmd) ==
  CASE cmd = "INSERT" ->
         UNION {{Req(session, ctx, table, cmd, NULL, Val(row), 0) :
                   ctx \in ctxs, row \in InsertRows(table, nextId)} : table \in tables}
    [] cmd = "UPDATE" ->
         UNION {UNION {{Req(session, ctx, table, cmd, Val(t.row), Val(row), t.at) :
                          ctx \in ctxs, row \in UpdatedRows(table, t.row)} :
                         t \in Targets(DB, table)} : table \in tables}
    [] cmd = "DELETE" ->
         UNION {{Req(session, ctx, table, cmd, Val(t.row), NULL, t.at) :
                   ctx \in ctxs, t \in Targets(DB, table)} : table \in tables}

ClientWrites(cmd) == Writes("client", ClientCtxs, TableNames, cmd)
SystemWrites(cmd) == Writes("system", SystemCtxs, TableNames \ {"audit_logs"}, cmd)

\* What the database answers to a request in the current state.
Outcome(q) ==
  Exec(DB, q.ctx, q.session = "system", q.table, q.cmd, q.old, q.new, q.at)

\* One data-changing request.  A refused statement changes nothing.
Request(q) ==
  LET r == Outcome(q)
  IN  IF r.result = "OK"
      THEN /\ ops < MaxOps
           /\ profiles' = r.db.profiles
           /\ time_entries' = r.db.time_entries
           /\ schedules' = r.db.schedules
           /\ audit_logs' = r.db.audit_logs
           /\ ip_whitelist' = r.db.ip_whitelist
           /\ geo_fences' = r.db.geo_fences
           /\ nextId' = IF q.cmd = "INSERT" /\ q.table # "profiles"
                          THEN nextId + 1 ELSE nextId
           /\ ops' = ops + 1
           /\ history' = history \o SelectSeq(r.muts, LAMBDA m : m.table # "audit_logs")
           /\ last' = [session |-> q.session, uid |-> q.ctx.uid,
                       table |-> q.table, cmd |-> q.cmd]
           /\ UNCHANGED rpc
      ELSE UNCHANGED vars

ClientInsert == \E q \in ClientWrites("INSERT") : Request(q)

ClientUpdate == \E q \in ClientWrites("UPDATE") : Request(q)

ClientDelete == \E q \in ClientWrites("DELETE") : Request(q)

\* A read changes nothing.
ClientSelect ==
  \E ctx \in ClientCtxs, table \in TableNames :
    /\ Select(DB, ctx.uid, table).result \in {"OK", "PolicyRecursion"}
    /\ UNCHANGED vars

SystemInsert == \E q \in SystemWrites("INSERT") : Request(q)

SystemUpdate == \E q \in SystemWrites("UPDATE") : Request(q)

SystemDelete == \E q \in SystemWrites("DELETE") : Request(q)

Next ==
  \/ ClientInsert
  \/ ClientUpdate
  \/ ClientDelete
  \/ ClientSelect
  \/ SystemInsert
  \/ SystemUpdate
  \/ SystemDelete

Spec == Init /\ [][Next]_vars

\* ------------------------------------------- the authorizer on its own
\* Policy stores and calls for check_location_restrictions.
FenceCenters == {[latitude |-> 0, longitude |-> 0],
                 [latitude |-> 1, longitude |-> MaxCoord]}
FenceUniverse ==
  {[id |-> 100 + (r + 1) * 2 + c.latitude, latitude |-> c.latitude,
    longitude |-> c.longitude, radius |-> r, created_by |-> NULL] :
     c \in FenceCenters, r \in (0 - 1)..MaxRadius}
WhitelistUniverse ==
  {[id |-> 10, ip_address |-> "1.2.3.4", created_by |-> NULL],
   [id |-> 11, ip_address |-> "9.9.9.9", created_by |-> NULL]}
CallCoords == Nullable(0..MaxCoord)
CallIPs == Nullable(IPs \cup {"5.6.7.8"})

InitAuth ==
  /\ profiles = {} /\ time_entries = {} /\ schedules = {} /\ audit_logs = <<>>
  /\ ip_whitelist \in SUBSET WhitelistUniverse
  /\ geo_fences \in {S \in SUBSET FenceUniverse : Cardinality(S) <= MaxFences}
  /\ nextId = 3
  /\ ops = 0
  /\ history = <<>>
  /\ last = NoStatement
  /\ rpc = NoCall

\* rpc('check_location_restrictions', {p_latitude, p_longitude, p_ip_address})
Authorize ==
  \E lat \in CallCoords, long \in CallCoords, ip \in CallIPs :
    /\ rpc' = [called |-> TRUE, latitude |-> lat, longitude |-> long,
               ip_address |-> ip,
               result |-> check_location_restrictions(lat, long, ip, DB)]
    /\ UNCHANGED <<profiles, time_entries, schedules, audit_logs, ip_whitelist,
                   geo_fences, nextId, ops, history, last>>

NextAuth == Authorize

SpecAuth == InitAuth /\ [][NextAuth]_vars

\* ----------------------------------------------------------------- claims
\* The squared planar distance between a fence's centre and (lat, long).
Dist2(f, lat, long) ==
  (lat - f.latitude) * (lat - f.latitude) + (long - f.longitude) * (long - f.longitude)

IpListed(ip) == ~IsNull(ip) /\ Get(ip) \in {w.ip_address : w \in ip_whitelist}

InsideSomeFence(lat, long) ==
  /\ ~IsNull(lat) /\ ~IsNull(long)
  /\ \E f \in geo_fences :
       f.radius >= 0 /\ Dist2(f, Get(lat), Get(long)) <= f.radius * f.radius

\* C2: for every policy store and every call (ip, lat, long), the authorizer
\* returns true exactly when ip is the address of some allowlist entry and
\* (lat, long) is present and within the radius of some geo-fence's centre;
\* with either condition failing, a coordinate absent, or the allowlist or
\* the fence set empty, it returns false.
C2_AuthorizeIffIpAndFence ==
  rpc.called =>
    (rpc.result <=> (IpListed(rpc.ip_address) /\ InsideSomeFence(rpc.latitude, rpc.longitude)))

\* A call is authorized by a fence whose edge the position is exactly on.
C2_Witness ==
  /\ rpc.called /\ rpc.result
  /\ \A f \in geo_fences :
       f.radius > 0 /\ Dist2(f, Get(rpc.latitude), Get(rpc.longitude)) = f.radius * f.radius

\* The snapshot of a row: the JSON object whose members are the row's columns
\* with the row's values; none for no row.
Snapshot(row) ==
  IF IsNull(row) THEN NULL ELSE Val([json |-> "object", members |-> Get(row)])

\* The row a mutation leaves behind or, for a DELETE, the row it removed.
MutRow(m) == IF ~IsNull(m.new) THEN Get(m.new) ELSE Get(m.old)

\* The audit record at position i is the record of the i-th committed mutation.
Records(i) ==
  /\ audit_logs[i].table_name = history[i].table
  /\ audit_logs[i].action = history[i].op
  /\ audit_logs[i].record_id = MutRow(history[i]).id

\* C1: the audit records and the committed row mutations of the five
\* audited tables correspond one to one, in order, with the same table name,
\* record id and action; and a statement whose audit write fails changes
\* neither the tables nor the audit trail.
C1_AuditOneToOne ==
  /\ Len(audit_logs) = Len(history)
  /\ \A i \in 1..Len(audit_logs) : Records(i)
  /\ \A cmd \in {"INSERT", "UPDATE", "DELETE"} : \A q \in SystemWrites(cmd) :
       q.ctx.headers = <<>> => Outcome(q).db = DB /\ Outcome(q).muts = <<>>

\* A cascading delete of a profile has been committed (its entries' audit
\* records before its own) while a statement whose audit write fails is on
\* offer.
C1_Witness ==
  /\ Len(history) >= 2
  /\ history[Len(history)].table = "profiles"
  /\ history[Len(history)].op = "DELETE"
  /\ history[Len(history) - 1].table = "time_entries"
  /\ history[Len(history) - 1].op = "DELETE"
  /\ \E q \in SystemWrites("INSERT") : Outcome(q).result = "AuditWriteFailure"

ClockRequests == {q \in ClientWrites("INSERT") : q.table = "time_entries"}

\* C5: a client's insert of a time entry succeeds only when auth.uid() is the
\* entry's user_id, whatever the role of the caller's profile; an insert for
\* another user's id is refused with AccessDenied and leaves time_entries and
\* audit_logs as they were.
C5_InsertSelfOnly ==
  \A q \in ClockRequests :
    /\ Outcome(q).result = "OK" => Get(q.new).user_id = q.ctx.uid
    /\ Get(q.new).user_id # q.ctx.uid =>
         /\ Outcome(q).result = "AccessDenied"
         /\ Outcome(q).db.time_entries = time_entries
         /\ Outcome(q).db.audit_logs = audit_logs

\* An admin has clocked in for themself, and their request to insert an entry
\* owned by the other user is refused.
C5_Witness ==
  /\ last.session = "client" /\ last.table = "time_entries" /\ last.cmd = "INSERT"
  /\ \E p \in profiles : p.role = "admin" /\ Val(p.id) = last.uid
  /\ \E q \in ClockRequests :
       /\ q.ctx.uid = last.uid /\ Get(q.new).user_id # last.uid
       /\ Outcome(q).result = "AccessDenied"

\* C3 as stated: a time entry is stored only if the authorizer accepts its
\* (latitude, longitude, ip_address) against the policy store of the moment.
\* (An insert into time_entries leaves the policy store as it was, so the
\* store after the insert is the store of the request.)
C3_AsStated ==
  (last.table = "time_entries" /\ last.cmd = "INSERT" /\ last.session = "client") =>
    \A r \in time_entries :
      r.id = nextId - 1 =>
        check_location_restrictions(r.latitude, r.longitude, r.ip_address, DB)

\* The clients' requests that write audit_logs directly.
AuditWrites ==
  {q \in ClientWrites("INSERT") \cup ClientWrites("UPDATE") \cup ClientWrites("DELETE") :
     q.table = "audit_logs"}

\* C6: audit_logs is append-only.  Every step keeps the records it had, in
\* place and unchanged, and adds exactly one record per row mutation it
\* commits on an audited table; no client request that writes audit_logs
\* directly is accepted, whatever the caller's role.
C6_AuditAppendOnly ==
  /\ [](\A q \in AuditWrites : Outcome(q).result # "OK")
  /\ [][/\ Len(audit_logs') >= Len(audit_logs)
        /\ SubSeq(audit_logs', 1, Len(audit_logs)) = audit_logs
        /\ Len(audit_logs') - Len(audit_logs) = Len(history') - Len(history)]_vars

\* Audit records exist, an admin and an employee have profiles, and direct
\* inserts, updates and deletes of audit records are on offer and refused.
C6_Witness ==
  /\ Len(audit_logs) >= 3
  /\ \E p1, p2 \in profiles : p1.role = "admin" /\ p2.role = "employee"
  /\ \A cmd \in {"INSERT", "UPDATE", "DELETE"} : \A u \in Users :
       \E q \in AuditWrites :
         q.cmd = cmd /\ q.ctx.uid = Val(u) /\ Outcome(q).result # "OK"

\* The clients' requests that update or delete a time entry.
EntryRewrites ==
  {q \in ClientWrites("UPDATE") \cup ClientWrites("DELETE") : q.table = "time_entries"}

\* C7: a time entry is immutable for clients.  No client request to update or
\* delete a time entry is accepted, whatever the caller's role, and every
\* statement a client commits leaves each stored entry in place with the
\* field values it had.
C7_EntriesImmutable ==
  /\ [](\A q \in EntryRewrites : Outcome(q).result # "OK")
  /\ [][last'.session = "client" => time_entries \subseteq time_entries']_vars

\* A client has committed a statement while an earlier entry was stored, and
\* the owner's and the admin's requests to update and to delete it are
\* refused.
C7_Witness ==
  /\ last.session = "client"
  /\ \E r \in time_entries :
       /\ r.id < nextId - 1
       /\ \A cmd \in {"UPDATE", "DELETE"} : \A u \in Users :
            \E q \in EntryRewrites :
              /\ q.cmd = cmd /\ q.old = Val(r) /\ q.ctx.uid = Val(u)
              /\ Outcome(q).result # "OK"
  /\ \E p \in profiles : p.role = "admin"

\* The policy-store tables.
PolicyTables == {"ip_whitelist", "geo_fences"}

IsAdmin(uid) == \E p \in profiles : Val(p.id) = uid /\ p.role = "admin"

\* C8 as stated: a write of ip_whitelist or geo_fences by a caller who is not
\* an admin is refused and changes nothing, and every authenticated caller
\* reads both tables in full.
C8_AsStated ==
  /\ \A cmd \in {"INSERT", "UPDATE", "DELETE"} : \A q \in ClientWrites(cmd) :
       (q.table \in PolicyTables /\ ~IsAdmin(q.ctx.uid)) =>
         Outcome(q).result # "OK" /\ Outcome(q).db = DB
  /\ \A ctx \in ClientCtxs : \A table \in PolicyTables :
       /\ Select(DB, ctx.uid, table).result = "OK"
       /\ Select(DB, ctx.uid, table).rows = DB[table]

\* C9 as stated: every stored geo-fence has radius > 0.
C9_AsStated == \A f \in geo_fences : f.radius > 0

\* C10 as stated: a write is never refused because request context is
\* missing: a statement that commits with request.headers defined commits
\* with it undefined too.
C10_AsStated ==
  \A cmd \in {"INSERT", "UPDATE", "DELETE"} : \A q \in SystemWrites(cmd) :
    q.ctx.headers = <<>> =>
      (Outcome([q EXCEPT !.ctx.headers = <<NULL>>]).result = "OK"
         => Outcome(q).result = "OK")

====
